---- MODULE Spec2Model ----
(***************************************************************************)
(* SafetyEye: PPE monitoring loop (app.py) and its decision layer          *)
(* (core/rules.py, core/utils.py).                                         *)
(*                                                                         *)
(* Units.  Wall-clock times are integers counting ticks of                 *)
(* 1/TicksPerSecond seconds.  An IoU value is kept as the exact fraction   *)
(* <<interArea, union>> and compared by cross-multiplication; the IoU      *)
(* threshold and the confidences are integers counting hundredths          *)
(* (0.12 is 12, 0.35 is 35).  A box centre is kept doubled (x1+x2, y1+y2). *)
(***************************************************************************)
EXTENDS Integers, Sequences, FiniteSets, TLC

VARIABLES
    \* ---- widgets read at the top of a script run (app.py 48-67)
    conf_slider,        \* confidence threshold, hundredths
    run_rate,           \* "Max FPS (approx)"
    enable_email,       \* checkbox
    smtp_host,          \* TRUE iff the text input is non-empty
    smtp_user,          \* TRUE iff the text input is non-empty
    smtp_password,      \* TRUE iff the text input is non-empty
    recipient,          \* TRUE iff the text input is non-empty
    \* ---- st.session_state (app.py 81-90)
    running,
    last_log_time,      \* dict person_idx -> time of the last violation row
    last_frame_time,
    last_email_time,
    \* ---- the loop and its locals (app.py 126-207)
    pc,                 \* "idle" | "loop" | "done"  (rules driver: "input" | "matched" | "evaluated")
    frames_left,        \* frames the capture still delivers before read() fails
    now,                \* time.time() of line 131 for the last frame read
    processed,          \* the last frame read passed the rate limiter
    detections,
    iou_thresh,         \* hundredths
    mapping,
    violations,
    violation_boxes,
    \* ---- the environment
    clock,              \* wall clock, ticks
    log,                \* rows handed to storage.append_log, oldest first
    mail                \* calls of send_email_alert: [at, ok, n], oldest first

vars == <<conf_slider, run_rate, enable_email, smtp_host, smtp_user,
          smtp_password, recipient, running, last_log_time, last_frame_time,
          last_email_time, pc, frames_left, now, processed, detections,
          iou_thresh, mapping, violations, violation_boxes, clock, log, mail>>

(***************************************************************************)
(* Program constants                                                       *)
(***************************************************************************)
LOG_COOLDOWN == 5
EMAIL_COOLDOWN == 60
DEFAULT_CONF == 35
DEFAULT_RUN_RATE == 8
APP_IOU_THRESH == 12

(***************************************************************************)
(* Bounds of the model                                                     *)
(***************************************************************************)
TicksPerSecond == 200       \* clock resolution: one tick is 5 ms
StartSeconds == 1000        \* time.time() when the session starts, seconds
MaxFrames == 3              \* frames one capture delivers
PredictTicks == 1           \* time detector.predict takes, ticks
MaxDets == 3                \* detections in one input of the rules driver

Max(a, b) == IF a > b THEN a ELSE b
Min(a, b) == IF a < b THEN a ELSE b

(***************************************************************************)
(* core/utils.py                                                           *)
(***************************************************************************)
iou(boxA, boxB) ==
    LET xA == Max(boxA[1], boxB[1])
        yA == Max(boxA[2], boxB[2])
        xB == Min(boxA[3], boxB[3])
        yB == Min(boxA[4], boxB[4])
        interW == Max(0, xB - xA)
        interH == Max(0, yB - yA)
        interArea == interW * interH
        boxAArea == Max(1, boxA[3] - boxA[1]) * Max(1, boxA[4] - boxA[2])
        boxBArea == Max(1, boxB[3] - boxB[1]) * Max(1, boxB[4] - boxB[2])
        union == boxAArea + boxBArea - interArea
    IN  IF union > 0 THEN <<interArea, union>> ELSE <<0, 1>>

\* twice the centre, so that it stays an integer
center(box) == <<box[1] + box[3], box[2] + box[4]>>

\* comparisons of the float values the fractions stand for
FracGT(a, b) == a[1] * b[2] > b[1] * a[2]
FracGEPct(a, pct) == a[1] * 100 >= pct * a[2]

(***************************************************************************)
(* core/rules.py                                                           *)
(***************************************************************************)
\* str.lower() on the labels that occur
Lower(s) ==
    CASE s = "Person" -> "person"
      [] s = "People" -> "people"
      [] s = "Helmet" -> "helmet"
      [] s = "Vest" -> "vest"
      [] OTHER -> s

safe_label(det) == Lower(det.label)

has_valid_box(det) == Len(det.box) = 4

IsPersonLabel(lab) == lab \in {"person", "people", "0"}

IsPersonDet(d) == IsPersonLabel(safe_label(d))
IsOtherDet(d) == ~IsPersonLabel(safe_label(d))

\* variant: a later person with an equal IoU replaces the best one
IoUBetter_GE(ov, best_iou, thr) == ~FracGT(best_iou, ov) /\ FracGEPct(ov, thr)
\* line 106: the person at hand replaces the best one so far
IoUBetter(ov, best_iou, thr) == FracGT(ov, best_iou) /\ FracGEPct(ov, thr)

\* lines 100-108: best_idx after the persons idx, idx+1, ...; -1 is None
RECURSIVE BestIdx(_, _, _, _, _, _)
BestIdx(m, ppe_box, thr, idx, best_iou, best_idx) ==
    IF idx \notin DOMAIN m THEN best_idx
    ELSE LET ov == iou(m[idx].person.box, ppe_box)
         IN  IF IoUBetter(ov, best_iou, thr)
             THEN BestIdx(m, ppe_box, thr, idx + 1, ov, idx)
             ELSE BestIdx(m, ppe_box, thr, idx + 1, best_iou, best_idx)

\* line 119
CenterInside(c, p_box) ==
    /\ 2 * p_box[1] <= c[1] /\ c[1] <= 2 * p_box[3]
    /\ 2 * p_box[2] <= c[2] /\ c[2] <= 2 * p_box[4]

\* lines 117-122: the first person whose box holds the centre; -1 if none
RECURSIVE FirstContaining(_, _, _)
FirstContaining(m, c, idx) ==
    IF idx \notin DOMAIN m THEN -1
    ELSE IF CenterInside(c, m[idx].person.box) THEN idx
    ELSE FirstContaining(m, c, idx + 1)

\* variant: the containment rule is tried before the IoU rule
AssignTo_FallbackFirst(m, ppe_det, thr) ==
    LET c == FirstContaining(m, center(ppe_det.box), 0)
    IN  IF c # -1 THEN c
        ELSE BestIdx(m, ppe_det.box, thr, 0, <<0, 1>>, -1)
\* lines 110-122: the person one equipment detection goes to; -1 if dropped
AssignTo(m, ppe_det, thr) ==
    LET best_idx == BestIdx(m, ppe_det.box, thr, 0, <<0, 1>>, -1)
    IN  IF best_idx # -1 THEN best_idx
        ELSE FirstContaining(m, center(ppe_det.box), 0)

\* variant: equipment no rule places goes to person 0
AssignOne_Nearest(m, ppe_det, thr) ==
    LET to == AssignTo(m, ppe_det, thr)
        tgt == IF to = -1 /\ 0 \in DOMAIN m THEN 0 ELSE to
    IN  IF tgt = -1 THEN m
        ELSE [m EXCEPT ![tgt].ppe = Append(@, ppe_det)]
\* lines 97-123, one pass of the loop body
AssignOne(m, ppe_det, thr) ==
    LET to == AssignTo(m, ppe_det, thr)
    IN  IF to = -1 THEN m
        ELSE [m EXCEPT ![to].ppe = Append(@, ppe_det)]

\* variant: the equipment detections are taken last first
RECURSIVE AssignAll_LastFirst(_, _, _, _)
AssignAll_LastFirst(m, others, thr, i) ==
    IF i > Len(others) THEN m
    ELSE AssignAll_LastFirst(AssignOne(m, others[Len(others) - i + 1], thr),
                             others, thr, i + 1)
\* lines 97-123: the loop over others, from others[i] on
RECURSIVE AssignAll(_, _, _, _)
AssignAll(m, others, thr, i) ==
    IF i > Len(others) THEN m
    ELSE AssignAll(AssignOne(m, others[i], thr), others, thr, i + 1)

\* lines 59-125
match_ppe_to_person(dets, thr) ==
    LET cleaned == SelectSeq(dets, has_valid_box)
        persons == SelectSeq(cleaned, IsPersonDet)
        others == SelectSeq(cleaned, IsOtherDet)
        mapping0 == [idx \in 0 .. (Len(persons) - 1) |->
                        [person |-> persons[idx + 1], ppe |-> <<>>]]
    IN  AssignAll(mapping0, others, thr, 1)

\* lines 182-189: the comparison of a confidence with the threshold
ConfCounts(c, conf_threshold) == c >= conf_threshold

\* lines 179-189: the four flags after the detections i, i+1, ... of ppe_list
RECURSIVE Signals(_, _, _, _)
Signals(ppe_list, conf_threshold, i, s) ==
    IF i > Len(ppe_list) THEN s
    ELSE LET p == ppe_list[i]
             lab == safe_label(p)
             c == p.conf
             s2 == IF lab = "helmet" /\ ConfCounts(c, conf_threshold)
                       THEN [s EXCEPT !.has_helmet = TRUE]
                   ELSE IF lab = "no_helmet" /\ ConfCounts(c, conf_threshold)
                       THEN [s EXCEPT !.has_no_helmet = TRUE]
                   ELSE IF lab = "vest" /\ ConfCounts(c, conf_threshold)
                       THEN [s EXCEPT !.has_vest = TRUE]
                   ELSE IF lab = "no_vest" /\ ConfCounts(c, conf_threshold)
                       THEN [s EXCEPT !.has_no_vest = TRUE]
                   ELSE s
         IN  Signals(ppe_list, conf_threshold, i + 1, s2)

NoSignals == [has_helmet |-> FALSE, has_no_helmet |-> FALSE,
              has_vest |-> FALSE, has_no_vest |-> FALSE]

\* variant: a positive signal outweighs a negative one
Missing_PositiveWins(has, has_no) == ~has
\* lines 191-192
Missing(has, has_no) == (~has) \/ has_no

\* variant: only a person missing both categories is a violation
IsViolation_Both(missing_helmet, missing_vest) == missing_helmet /\ missing_vest
\* line 194
IsViolation(missing_helmet, missing_vest) == missing_helmet \/ missing_vest

\* lines 167-207, for the persons idx, idx+1, ...
RECURSIVE EvalFrom(_, _, _, _)
EvalFrom(m, conf_threshold, idx, acc) ==
    IF idx \notin DOMAIN m THEN acc
    ELSE LET info == m[idx]
             person_box == info.person.box
             s == Signals(info.ppe, conf_threshold, 1, NoSignals)
             missing_helmet == Missing(s.has_helmet, s.has_no_helmet)
             missing_vest == Missing(s.has_vest, s.has_no_vest)
             v == [person_idx |-> idx,
                   person_box |-> person_box,
                   missing_helmet |-> missing_helmet,
                   missing_vest |-> missing_vest,
                   details |-> s]
         IN  IF IsViolation(missing_helmet, missing_vest)
             THEN EvalFrom(m, conf_threshold, idx + 1,
                           [violations |-> Append(acc.violations, v),
                            violation_boxes |-> Append(acc.violation_boxes, person_box)])
             ELSE EvalFrom(m, conf_threshold, idx + 1, acc)

\* lines 130-209, for a mapping that is a dict (what match_ppe_to_person returns)
evaluate_violations(m, conf_threshold) ==
    EvalFrom(m, conf_threshold, 0, [violations |-> <<>>, violation_boxes |-> <<>>])

(***************************************************************************)
(* app.py: the pieces of the main loop                                     *)
(***************************************************************************)
Ticks(seconds) == seconds * TicksPerSecond

\* time.strftime("%Y-%m-%d %H:%M:%S"): the time cut to whole seconds
strftime(t) == t \div TicksPerSecond

\* storage.append_log(row)
append_log(lg, row) == Append(lg, row)

\* variant: a frame exactly one interval later is still discarded
RateLimited_LE(t, last, rate) == (t - last) * rate <= TicksPerSecond
\* lines 124, 132: now - last_frame_time < 1.0 / run_rate
RateLimited(t, last, rate) == (t - last) * rate < TicksPerSecond

\* line 135: the time kept as that of the last processed frame
FrameStamp(t_frame, t_after) == t_frame

\* line 133: time.sleep(0.005)
SleepTicks == (5 * TicksPerSecond) \div 1000

\* dict.get(pid, 0)
Get(d, k, default) == IF k \in DOMAIN d THEN d[k] ELSE default
\* d[k] = v
Put(d, k, v) == [x \in (DOMAIN d) \cup {k} |-> IF x = k THEN v ELSE d[x]]

\* lines 146-153
SummaryRow(t, m, vs) ==
    [timestamp |-> strftime(t), frame_id |-> "",
     people_count |-> Cardinality(DOMAIN m),
     violations_count |-> Len(vs),
     person_id |-> "", missing |-> ""]

\* variant: the summary is logged only for a frame with violations
LogSummary_WhenViolations(lg, t, m, vs) ==
    IF vs = <<>> THEN lg ELSE append_log(lg, SummaryRow(t, m, vs))
\* lines 146-153: the frame summary is logged
LogSummary(lg, t, m, vs) == append_log(lg, SummaryRow(t, m, vs))

\* lines 147, 162, 180, 187: time.time() after detector.predict, in the pass
\* of the frame stamped t_frame
PassClock(t_frame) == t_frame + PredictTicks

\* lines 165-169, 177: ",".join(missing)
MissingText(miss_helmet, miss_vest) ==
    IF miss_helmet /\ miss_vest THEN "helmet,vest"
    ELSE IF miss_helmet THEN "helmet"
    ELSE IF miss_vest THEN "vest"
    ELSE ""

\* lines 171-178
ViolationRow(t, m, v) ==
    [timestamp |-> strftime(t), frame_id |-> "",
     people_count |-> Cardinality(DOMAIN m),
     violations_count |-> 1,
     person_id |-> "person_" \o ToString(v.person_idx),
     missing |-> MissingText(v.missing_helmet, v.missing_vest)]

\* variant: a row exactly one cooldown later is still suppressed
LogSuppressed_Strict(t, last) == t - last <= Ticks(LOG_COOLDOWN)
\* lines 161-163: the row of this person is suppressed
LogSuppressed(t, last) == t - last < Ticks(LOG_COOLDOWN)

\* line 180
StampLog(llt, pid, t) == Put(llt, pid, t)

\* variant: an accepted person gets one row for each missing category
RECURSIVE ViolationLogs_PerCategory(_, _, _, _, _, _)
ViolationLogs_PerCategory(vs, i, llt, lg, m, t) ==
    IF i > Len(vs) THEN [llt |-> llt, log |-> lg]
    ELSE LET v == vs[i]
             pid == v.person_idx
             last == Get(llt, pid, 0)
             lgH == IF v.missing_helmet
                    THEN append_log(lg, ViolationRow(t, m, [v EXCEPT !.missing_vest = FALSE]))
                    ELSE lg
             lgHV == IF v.missing_vest
                     THEN append_log(lgH, ViolationRow(t, m, [v EXCEPT !.missing_helmet = FALSE]))
                     ELSE lgH
         IN  IF LogSuppressed(t, last)
             THEN ViolationLogs_PerCategory(vs, i + 1, llt, lg, m, t)
             ELSE ViolationLogs_PerCategory(vs, i + 1, StampLog(llt, pid, t), lgHV, m, t)
\* lines 156-180 for the violations i, i+1, ...: the dict and the log after them
RECURSIVE ViolationLogs(_, _, _, _, _, _)
ViolationLogs(vs, i, llt, lg, m, t) ==
    IF i > Len(vs) THEN [llt |-> llt, log |-> lg]
    ELSE LET v == vs[i]
             pid == v.person_idx
             last == Get(llt, pid, 0)
         IN  IF LogSuppressed(t, last)
             THEN ViolationLogs(vs, i + 1, llt, lg, m, t)
             ELSE ViolationLogs(vs, i + 1, StampLog(llt, pid, t),
                                append_log(lg, ViolationRow(t, m, v)), m, t)

\* variant: the recipient is not looked at
EmailConfigured_NoRecipient(en, vs, host, user, pw, rcpt) ==
    en /\ vs # <<>> /\ host /\ user /\ pw
\* lines 183-186
EmailConfigured(en, vs, host, user, pw, rcpt) ==
    en /\ vs # <<>> /\ host /\ user /\ pw /\ rcpt

\* variant: the alert waits for the log cooldown
EmailDue_LogCooldown(now_email, last) == now_email - last >= Ticks(LOG_COOLDOWN)
\* line 188
EmailDue(now_email, last) == now_email - last >= Ticks(EMAIL_COOLDOWN)

\* variant: the time is kept whatever the send returns
AfterSend_Always(last, now_email, ok, done) == now_email
\* lines 196-197
AfterSend(last, now_email, ok, done) == IF ok THEN now_email ELSE last

(***************************************************************************)
(* Inputs                                                                  *)
(***************************************************************************)
Det(box, conf, label) == [box |-> box, conf |-> conf, label |-> label]

\* person boxes: PA and PB overlap in a strip, PWide is a large box right of PA
PA == <<0, 0, 10, 20>>
PB == <<8, 0, 18, 20>>
PWide == <<9, 0, 60, 40>>
\* equipment boxes
EHead == <<2, 0, 8, 6>>         \* inside PA only, IoU with PA 0.18
ETie == <<4, 0, 14, 20>>        \* IoU 3/7 with PA and with PB
ELean == <<6, 0, 14, 10>>       \* IoU 1/6 with PA, 3/11 with PB, centre in both
ESplit == <<6, 0, 16, 10>>      \* IoU 2/13 with PA, centre outside PA, inside PWide
ESmall == <<2, 2, 5, 5>>        \* inside PA, IoU with PA 0.045
EFar == <<70, 50, 74, 54>>      \* overlaps no person box

PersonDets ==
    {Det(PA, 90, "person"), Det(PB, 90, "People"), Det(PWide, 90, "0")}
LabelDets ==
    {Det(EHead, 35, "helmet"), Det(EHead, 90, "no_helmet"),
     Det(EHead, 90, "vest"), Det(EHead, 20, "Vest"), Det(EHead, 90, "no_vest")}
PlaceDets ==
    {Det(ETie, 90, "helmet"), Det(ELean, 90, "helmet"), Det(ESplit, 90, "helmet"),
     Det(ESmall, 90, "helmet"), Det(EFar, 90, "no_helmet")}
BadDets == {Det(<<1, 2, 3>>, 90, "helmet")}
DetSet == PersonDets \cup LabelDets \cup PlaceDets \cup BadDets

\* one worker in a large box, a no_vest detection over the torso (IoU 0.52)
\* and a helmet detection in the top left corner (IoU 0.125)
ScenarioPerson == Det(<<10, 10, 110, 210>>, 90, "person")
ScenarioNoVest == Det(<<20, 20, 100, 150>>, 80, "no_vest")
ScenarioHelmet == Det(<<10, 10, 60, 60>>, 90, "helmet")
ScenarioInput == <<ScenarioPerson, ScenarioNoVest, ScenarioHelmet>>

\* the inputs of the rules driver
RuleInputs == UNION {[1 .. n -> DetSet] : n \in 0 .. MaxDets} \cup {ScenarioInput}
IoUThresholds == {0, APP_IOU_THRESH}
ConfThresholds == {DEFAULT_CONF, 90}

\* what detector.predict returns for a frame of the capture
SceneEmpty == <<>>
SceneCompliant == <<Det(PA, 90, "person"), Det(EHead, 90, "helmet"), Det(EHead, 90, "vest")>>
SceneOne == <<Det(PA, 90, "person"), Det(EHead, 90, "helmet")>>
SceneTwo == <<Det(PA, 90, "person"), Det(PB, 90, "person")>>
Scenes == {SceneEmpty, SceneCompliant, SceneOne, SceneTwo}

\* time from one frame's time.time() (line 131) to the next frame's, ticks:
\* 50 ms, 2 s, 3 s, 60 s
FrameGaps == {TicksPerSecond \div 20,
              Ticks(2), Ticks(LOG_COOLDOWN - 2), Ticks(EMAIL_COOLDOWN)}
\* time send_email_alert takes, ticks
SendDelays == {Ticks(2)}

\* the widgets of one script run
Widgets(en, host, user, pw, rcpt, rate) ==
    [en |-> en, host |-> host, user |-> user, pw |-> pw, rcpt |-> rcpt, rate |-> rate]
Configs ==
    {Widgets(TRUE, TRUE, TRUE, TRUE, TRUE, DEFAULT_RUN_RATE),
     Widgets(TRUE, TRUE, TRUE, TRUE, TRUE, 20),
     Widgets(FALSE, TRUE, TRUE, TRUE, TRUE, DEFAULT_RUN_RATE),
     Widgets(TRUE, FALSE, TRUE, TRUE, TRUE, DEFAULT_RUN_RATE),
     Widgets(TRUE, TRUE, FALSE, TRUE, TRUE, DEFAULT_RUN_RATE),
     Widgets(TRUE, TRUE, TRUE, FALSE, TRUE, DEFAULT_RUN_RATE),
     Widgets(TRUE, TRUE, TRUE, TRUE, FALSE, DEFAULT_RUN_RATE)}

(***************************************************************************)
(* app.py: the session                                                     *)
(***************************************************************************)
\* lines 48-67 (widget defaults), 81-90 (session state), before Start is pressed
Init ==
    /\ conf_slider = DEFAULT_CONF
    /\ run_rate = DEFAULT_RUN_RATE
    /\ enable_email = FALSE
    /\ smtp_host = TRUE
    /\ smtp_user = FALSE
    /\ smtp_password = FALSE
    /\ recipient = FALSE
    /\ running = FALSE
    /\ last_log_time = <<>>
    /\ last_frame_time = 0
    /\ last_email_time = 0
    /\ pc = "idle"
    /\ frames_left = 0
    /\ now = Ticks(StartSeconds)
    /\ processed = FALSE
    /\ detections = <<>>
    /\ iou_thresh = APP_IOU_THRESH
    /\ mapping = <<>>
    /\ violations = <<>>
    /\ violation_boxes = <<>>
    /\ clock = Ticks(StartSeconds)
    /\ log = <<>>
    /\ mail = <<>>

\* lines 93-94, 103-118: Start pressed with the widgets as set, the capture opens
Start(cfg) ==
    /\ pc = "idle"
    /\ running' = TRUE
    /\ enable_email' = cfg.en
    /\ smtp_host' = cfg.host
    /\ smtp_user' = cfg.user
    /\ smtp_password' = cfg.pw
    /\ recipient' = cfg.rcpt
    /\ run_rate' = cfg.rate
    /\ frames_left' = MaxFrames
    /\ pc' = "loop"
    /\ UNCHANGED <<conf_slider, last_log_time, last_frame_time, last_email_time,
                   now, processed, detections, iou_thresh, mapping, violations,
                   violation_boxes, clock, log, mail>>

\* lines 106-108, 110-112: the capture does not open
StartFails ==
    /\ pc = "idle"
    /\ running' = FALSE
    /\ pc' = "done"
    /\ UNCHANGED <<conf_slider, run_rate, enable_email, smtp_host, smtp_user,
                   smtp_password, recipient, last_log_time, last_frame_time,
                   last_email_time, frames_left, now, processed, detections,
                   iou_thresh, mapping, violations, violation_boxes, clock, log, mail>>

\* lines 127-129, 209-210: read() fails, the loop ends
EndOfStream ==
    /\ pc = "loop"
    /\ frames_left = 0
    /\ pc' = "done"
    /\ UNCHANGED <<conf_slider, run_rate, enable_email, smtp_host, smtp_user,
                   smtp_password, recipient, running, last_log_time, last_frame_time,
                   last_email_time, frames_left, now, processed, detections,
                   iou_thresh, mapping, violations, violation_boxes, clock, log, mail>>

\* lines 127-134: a frame read too soon after the last processed one
SkipFrame(gap) ==
    /\ pc = "loop"
    /\ frames_left > 0
    /\ now + gap >= clock
    /\ RateLimited(now + gap, last_frame_time, run_rate)
    /\ now' = now + gap
    /\ clock' = now + gap + SleepTicks
    /\ frames_left' = frames_left - 1
    /\ processed' = FALSE
    /\ UNCHANGED <<conf_slider, run_rate, enable_email, smtp_host, smtp_user,
                   smtp_password, recipient, running, last_log_time, last_frame_time,
                   last_email_time, pc, detections, iou_thresh, mapping, violations,
                   violation_boxes, log, mail>>

\* lines 183-197: the alert of one pass, the clock reading t_email at line 187
EmailAlert(vs, t_email) ==
    IF EmailConfigured(enable_email, vs, smtp_host, smtp_user, smtp_password, recipient)
       /\ EmailDue(t_email, last_email_time)
    THEN \E ok \in BOOLEAN, sd \in SendDelays :
            /\ mail' = Append(mail, [at |-> t_email, ok |-> ok, n |-> Len(vs)])
            /\ last_email_time' = AfterSend(last_email_time, t_email, ok, t_email + sd)
            /\ clock' = t_email + sd
    ELSE /\ mail' = mail
         /\ last_email_time' = last_email_time
         /\ clock' = t_email

\* lines 127-207: a frame that passes the rate limiter
ProcessFrame(gap, scene) ==
    /\ pc = "loop"
    /\ frames_left > 0
    /\ now + gap >= clock
    /\ ~RateLimited(now + gap, last_frame_time, run_rate)
    /\ now' = now + gap
    /\ last_frame_time' = FrameStamp(now + gap, PassClock(now + gap))
    /\ frames_left' = frames_left - 1
    /\ processed' = TRUE
    /\ detections' = scene
    /\ LET m == match_ppe_to_person(scene, iou_thresh)
           ev == evaluate_violations(m, conf_slider)
           t == PassClock(now + gap)
           r == ViolationLogs(ev.violations, 1, last_log_time,
                              LogSummary(log, t, m, ev.violations), m, t)
       IN  /\ mapping' = m
           /\ violations' = ev.violations
           /\ violation_boxes' = ev.violation_boxes
           /\ last_log_time' = r.llt
           /\ log' = r.log
           /\ EmailAlert(ev.violations, t)
    /\ UNCHANGED <<conf_slider, run_rate, enable_email, smtp_host, smtp_user,
                   smtp_password, recipient, running, pc, iou_thresh>>

Next ==
    \/ \E cfg \in Configs : Start(cfg)
    \/ StartFails
    \/ EndOfStream
    \/ \E gap \in FrameGaps : SkipFrame(gap)
    \/ \E gap \in FrameGaps, scene \in Scenes : ProcessFrame(gap, scene)

Spec == Init /\ [][Next]_vars

(***************************************************************************)
(* core/rules.py driven directly: match_ppe_to_person, then                *)
(* evaluate_violations, on every input of RuleInputs                       *)
(***************************************************************************)
InitRules ==
    /\ conf_slider \in ConfThresholds
    /\ run_rate = DEFAULT_RUN_RATE
    /\ enable_email = FALSE
    /\ smtp_host = TRUE
    /\ smtp_user = FALSE
    /\ smtp_password = FALSE
    /\ recipient = FALSE
    /\ running = FALSE
    /\ last_log_time = <<>>
    /\ last_frame_time = 0
    /\ last_email_time = 0
    /\ pc = "input"
    /\ frames_left = 0
    /\ now = Ticks(StartSeconds)
    /\ processed = FALSE
    /\ detections \in RuleInputs
    /\ iou_thresh \in IoUThresholds
    /\ mapping = <<>>
    /\ violations = <<>>
    /\ violation_boxes = <<>>
    /\ clock = Ticks(StartSeconds)
    /\ log = <<>>
    /\ mail = <<>>

MatchStep ==
    /\ pc = "input"
    /\ mapping' = match_ppe_to_person(detections, iou_thresh)
    /\ pc' = "matched"
    /\ UNCHANGED <<conf_slider, run_rate, enable_email, smtp_host, smtp_user,
                   smtp_password, recipient, running, last_log_time, last_frame_time,
                   last_email_time, frames_left, now, processed, detections,
                   iou_thresh, violations, violation_boxes, clock, log, mail>>

EvaluateStep ==
    /\ pc = "matched"
    /\ LET ev == evaluate_violations(mapping, conf_slider)
       IN  /\ violations' = ev.violations
           /\ violation_boxes' = ev.violation_boxes
    /\ pc' = "evaluated"
    /\ UNCHANGED <<conf_slider, run_rate, enable_email, smtp_host, smtp_user,
                   smtp_password, recipient, running, last_log_time, last_frame_time,
                   last_email_time, frames_left, now, processed, detections,
                   iou_thresh, mapping, clock, log, mail>>

NextRules == MatchStep \/ EvaluateStep

SpecRules == InitRules /\ [][NextRules]_vars

(***************************************************************************)
(* Properties of core/rules.py, checked under SpecRules                    *)
(***************************************************************************)
Matched == pc \in {"matched", "evaluated"}
Evaluated == pc = "evaluated"

\* the detections of the input that are kept and are not persons
IsEquipmentAt(i) ==
    /\ i \in 1 .. Len(detections)
    /\ Len(detections[i].box) = 4
    /\ Lower(detections[i].label) \notin {"person", "people", "0"}

PpeOf(idx) == mapping[idx].ppe
InPpe(d, idx) == \E k \in 1 .. Len(PpeOf(idx)) : PpeOf(idx)[k] = d
BoxOf(idx) == mapping[idx].person.box
IoUWith(idx, d) == iou(BoxOf(idx), d.box)
FracEQ(a, b) == a[1] * b[2] = b[1] * a[2]

\* some detection assigned to person idx carries label lab with enough confidence
Signal(idx, lab) ==
    \E k \in 1 .. Len(PpeOf(idx)) :
        Lower(PpeOf(idx)[k].label) = lab /\ PpeOf(idx)[k].conf >= conf_slider
ShouldMissHelmet(idx) == ~Signal(idx, "helmet") \/ Signal(idx, "no_helmet")
ShouldMissVest(idx) == ~Signal(idx, "vest") \/ Signal(idx, "no_vest")
EntriesOf(idx) == {k \in 1 .. Len(violations) : violations[k].person_idx = idx}

\* C5: for every person and each category c of helmet and vest, missing_c as
\* evaluate_violations reports it (false for a person with no entry) is true
\* iff no assigned detection labelled c reaches the confidence threshold or
\* some assigned detection labelled no_c does.
C5_MissingRule ==
    Evaluated =>
        \A idx \in DOMAIN mapping :
            /\ (\E k \in EntriesOf(idx) : violations[k].missing_helmet)
                   <=> ShouldMissHelmet(idx)
            /\ (\E k \in EntriesOf(idx) : violations[k].missing_vest)
                   <=> ShouldMissVest(idx)
            /\ \A k \in EntriesOf(idx) :
                   /\ violations[k].missing_helmet <=> ShouldMissHelmet(idx)
                   /\ violations[k].missing_vest <=> ShouldMissVest(idx)

\* a person with a helmet and a no_helmet signal, reported as missing the helmet
C5_Witness ==
    /\ Evaluated
    /\ \E idx \in DOMAIN mapping :
          /\ Signal(idx, "helmet") /\ Signal(idx, "no_helmet")
          /\ \E k \in EntriesOf(idx) : violations[k].missing_helmet

\* C6: violations holds exactly one entry for each person missing a helmet or
\* a vest and none for any other person, in person order; violation_boxes is
\* as long, its i-th element the box of the i-th violating person.
C6_ViolationSet ==
    Evaluated =>
        /\ \A idx \in DOMAIN mapping :
              Cardinality(EntriesOf(idx)) =
                  IF ShouldMissHelmet(idx) \/ ShouldMissVest(idx) THEN 1 ELSE 0
        /\ \A k \in 1 .. Len(violations) :
              /\ violations[k].person_idx \in DOMAIN mapping
              /\ violations[k].person_box = BoxOf(violations[k].person_idx)
        /\ Len(violation_boxes) = Len(violations)
        /\ \A k \in 1 .. Len(violations) :
              violation_boxes[k] = BoxOf(violations[k].person_idx)

\* two violating persons, their boxes in violation_boxes in person order
C6_Witness ==
    /\ Evaluated
    /\ Len(violations) = 2
    /\ violations[1].person_idx = 0 /\ violations[2].person_idx = 1
    /\ violation_boxes = <<BoxOf(0), BoxOf(1)>>
    /\ BoxOf(0) # BoxOf(1)

\* person a is the one the IoU rule picks for d: a positive IoU that reaches
\* the threshold, greater than every other person's, or equal with a lower id
IoUPick(a, d) ==
    /\ IoUWith(a, d)[1] > 0
    /\ FracGEPct(IoUWith(a, d), iou_thresh)
    /\ \A c \in DOMAIN mapping \ {a} :
          \/ FracGT(IoUWith(a, d), IoUWith(c, d))
          \/ (FracEQ(IoUWith(a, d), IoUWith(c, d)) /\ a < c)

CentreIn(d, b) ==
    /\ 2 * BoxOf(b)[1] <= d.box[1] + d.box[3] /\ d.box[1] + d.box[3] <= 2 * BoxOf(b)[3]
    /\ 2 * BoxOf(b)[2] <= d.box[2] + d.box[4] /\ d.box[2] + d.box[4] <= 2 * BoxOf(b)[4]

\* C7 as stated: an equipment detection whose IoU with person A reaches the
\* threshold and whose centroid lies inside person B's box is assigned to A
\* (here for two persons with different boxes, at the threshold app.py passes).
C7_AsStated ==
    (Matched /\ iou_thresh = APP_IOU_THRESH) =>
        \A i \in 1 .. Len(detections) : \A a, b \in DOMAIN mapping :
            (/\ IsEquipmentAt(i)
             /\ a # b
             /\ BoxOf(a) # BoxOf(b)
             /\ FracGEPct(IoUWith(a, detections[i]), iou_thresh)
             /\ CentreIn(detections[i], b))
            => InPpe(detections[i], a)

\* C7 (amended): an equipment detection for which person A is the pick of the
\* IoU rule is assigned to A and not to a person B whose box holds its
\* centroid; a detection sits in the list of a person its IoU rule does not
\* pick only when the IoU rule picks no person at all.
C7_Precedence ==
    Matched =>
        \A i \in 1 .. Len(detections) : \A a \in DOMAIN mapping :
            /\ \A b \in DOMAIN mapping :
                  (/\ IsEquipmentAt(i)
                   /\ a # b
                   /\ IoUPick(a, detections[i])
                   /\ CentreIn(detections[i], b))
                  => (InPpe(detections[i], a) /\ ~InPpe(detections[i], b))
            /\ (/\ IsEquipmentAt(i)
                /\ InPpe(detections[i], a)
                /\ ~IoUPick(a, detections[i]))
               => (/\ \A c \in DOMAIN mapping : ~IoUPick(c, detections[i])
                   /\ CentreIn(detections[i], a))

\* the IoU rule picks A although B, first in iteration order, holds the centroid
C7_Witness ==
    /\ Matched
    /\ \E i \in 1 .. Len(detections) : \E a, b \in DOMAIN mapping :
          /\ IsEquipmentAt(i)
          /\ b < a
          /\ IoUPick(a, detections[i])
          /\ ~FracGEPct(IoUWith(b, detections[i]), iou_thresh)
          /\ CentreIn(detections[i], b)
          /\ ~CentreIn(detections[i], a)
          /\ InPpe(detections[i], a)

\* person a has the greatest IoU with d, the lowest id among those that have it
GreatestIoU(a, d) ==
    \A c \in DOMAIN mapping \ {a} :
        \/ FracGT(IoUWith(a, d), IoUWith(c, d))
        \/ (FracEQ(IoUWith(a, d), IoUWith(c, d)) /\ a < c)

\* C8 as stated: for every threshold, if some person box has IoU >= iou_thresh
\* with the equipment box, the equipment is assigned to the person of greatest
\* IoU, the lowest id among ties.
C8_AsStated ==
    Matched =>
        \A i \in 1 .. Len(detections) : \A a \in DOMAIN mapping :
            (/\ IsEquipmentAt(i)
             /\ \E c \in DOMAIN mapping : FracGEPct(IoUWith(c, detections[i]), iou_thresh)
             /\ GreatestIoU(a, detections[i]))
            => (/\ InPpe(detections[i], a)
                /\ \A b \in DOMAIN mapping \ {a} : ~InPpe(detections[i], b))

\* C8 (amended): for every threshold, if some person box has a positive IoU
\* that is >= iou_thresh with the equipment box, the equipment is assigned to
\* the person of greatest IoU, the lowest id among ties, and to nobody else.
C8_IoUSelection ==
    Matched =>
        \A i \in 1 .. Len(detections) : \A a \in DOMAIN mapping :
            (/\ IsEquipmentAt(i)
             /\ \E c \in DOMAIN mapping :
                   /\ IoUWith(c, detections[i])[1] > 0
                   /\ FracGEPct(IoUWith(c, detections[i]), iou_thresh)
             /\ GreatestIoU(a, detections[i]))
            => (/\ InPpe(detections[i], a)
                /\ \A b \in DOMAIN mapping \ {a} : ~InPpe(detections[i], b))

\* two persons tie for the greatest IoU and the lower id gets the equipment
C8_Witness ==
    /\ Matched
    /\ \E i \in 1 .. Len(detections) : \E a, b \in DOMAIN mapping :
          /\ IsEquipmentAt(i)
          /\ a < b
          /\ FracEQ(IoUWith(a, detections[i]), IoUWith(b, detections[i]))
          /\ FracGEPct(IoUWith(a, detections[i]), iou_thresh)
          /\ InPpe(detections[i], a)
          /\ ~InPpe(detections[i], b)

\* how often d occurs among the equipment of the input, and in the lists
TimesInInput(d) ==
    Cardinality({i \in 1 .. Len(detections) : IsEquipmentAt(i) /\ detections[i] = d})
TimesAssigned(d) ==
    Cardinality({p \in (DOMAIN mapping) \X (1 .. Len(detections)) :
                    p[2] <= Len(PpeOf(p[1])) /\ PpeOf(p[1])[p[2]] = d})

\* the equipment at i overlaps no person box and its centroid is in none
Unassignable(i) ==
    /\ IsEquipmentAt(i)
    /\ \A c \in DOMAIN mapping :
          /\ IoUWith(c, detections[i])[1] = 0
          /\ ~CentreIn(detections[i], c)

RemoveAt(seq, i) == [k \in 1 .. (Len(seq) - 1) |-> IF k < i THEN seq[k] ELSE seq[k + 1]]

\* C9: every equipment detection of the input sits in the lists of the mapping
\* at most as often as it occurs in the input (once: in at most one list, at
\* most once there), the lists hold nothing else, and an equipment detection
\* with zero overlap and its centroid outside every person box is in no list
\* and the violations are those of the input without it.
C9_AssignedOnce ==
    Matched =>
        /\ \A d \in DetSet : TimesAssigned(d) <= TimesInInput(d)
        /\ \A idx \in DOMAIN mapping : \A k \in 1 .. Len(PpeOf(idx)) :
              TimesInInput(PpeOf(idx)[k]) >= 1
        /\ \A i \in 1 .. Len(detections) :
              Unassignable(i) =>
                  /\ TimesAssigned(detections[i]) = 0
                  /\ Evaluated =>
                        violations =
                            evaluate_violations(
                                match_ppe_to_person(RemoveAt(detections, i), iou_thresh),
                                conf_slider).violations

\* an unassignable equipment detection next to a person, the rules applied
C9_Witness ==
    /\ Evaluated
    /\ DOMAIN mapping # {}
    /\ \E i \in 1 .. Len(detections) : Unassignable(i)
    /\ \E idx \in DOMAIN mapping : Len(PpeOf(idx)) = 1

\* the rules are applied to ScenarioInput with the thresholds 0.12 and 0.35
C12_Setting ==
    /\ detections = ScenarioInput
    /\ iou_thresh = APP_IOU_THRESH
    /\ conf_slider = DEFAULT_CONF

\* C12: for the input [person (10,10,110,210); no_vest (20,20,100,150) 0.8;
\* helmet (10,10,60,60) 0.9] with IoU threshold 0.12 and confidence threshold
\* 0.35, the mapping has the single key 0 with the equipment list
\* [no_vest, helmet] in that order, and there is exactly one violation, for
\* person 0, with missing_helmet false and missing_vest true, and
\* violation_boxes is [(10,10,110,210)].
C12_Scenario ==
    C12_Setting =>
        /\ Matched =>
              /\ DOMAIN mapping = {0}
              /\ mapping[0].person.box = <<10, 10, 110, 210>>
              /\ Len(mapping[0].ppe) = 2
              /\ mapping[0].ppe[1].label = "no_vest"
              /\ mapping[0].ppe[1].box = <<20, 20, 100, 150>>
              /\ mapping[0].ppe[2].label = "helmet"
              /\ mapping[0].ppe[2].box = <<10, 10, 60, 60>>
        /\ Evaluated =>
              /\ Len(violations) = 1
              /\ violations[1].person_idx = 0
              /\ violations[1].missing_helmet = FALSE
              /\ violations[1].missing_vest = TRUE
              /\ violation_boxes = << <<10, 10, 110, 210>> >>

\* the scenario, both functions applied, both detections placed by the IoU rule
C12_Witness ==
    /\ C12_Setting
    /\ Evaluated
    /\ Len(violations) = 1
    /\ Len(mapping[0].ppe) = 2
    /\ \A k \in 1 .. 2 : FracGEPct(IoUWith(0, mapping[0].ppe[k]), APP_IOU_THRESH)

(***************************************************************************)
(* Properties of the main loop of app.py, checked under Spec               *)
(***************************************************************************)
\* a step that reads a frame; one that processes it; one that discards it
FrameStep == frames_left' = frames_left - 1
ProcessedStep == FrameStep /\ processed'
SkippedStep == FrameStep /\ ~processed'

\* the rows the step appends to the log
NewRows == SubSeq(log', Len(log) + 1, Len(log'))
RowsOf(rows, pid) ==
    {k \in 1 .. Len(rows) : rows[k].person_id = "person_" \o ToString(pid)}
SummaryRows(rows) == {k \in 1 .. Len(rows) : rows[k].person_id = ""}

\* C1: in a processed frame, the violation row of a violating person p is
\* accepted iff no time is recorded for p or the time of the pass minus
\* last_log_time[p] is at least the 5 s cooldown; an accepted row sets
\* last_log_time[p] to that time, a suppressed one leaves it alone.
C1_LogDedup ==
    [][ProcessedStep =>
        \A k \in 1 .. Len(violations') :
            LET pid == violations'[k].person_idx
                accepted == RowsOf(NewRows, pid) # {}
            IN  /\ accepted <=>
                      \/ pid \notin DOMAIN last_log_time
                      \/ PassClock(now') - last_log_time[pid]
                             >= LOG_COOLDOWN * TicksPerSecond
                /\ accepted =>
                      /\ pid \in DOMAIN last_log_time'
                      /\ last_log_time'[pid] = PassClock(now')
                /\ ~accepted =>
                      /\ pid \in DOMAIN last_log_time'
                      /\ last_log_time'[pid] = last_log_time[pid]]_vars

\* the rows of person_0 and the summaries of frames with one person, in
\* violation, by the second they were written
C1_Person0RowAt(sec) ==
    \E k \in 1 .. Len(log) : log[k].person_id = "person_0" /\ log[k].timestamp = sec
C1_LonePerson0AttemptAt(sec) ==
    \E k \in 1 .. Len(log) :
        /\ log[k].person_id = ""
        /\ log[k].timestamp = sec
        /\ log[k].people_count = 1
        /\ log[k].violations_count = 1

\* attempts for person 0 at t, t + 2 and, the cooldown just over, t + 5:
\* accepted, suppressed, accepted
C1_Witness ==
    \E t \in StartSeconds .. (StartSeconds + EMAIL_COOLDOWN) :
        /\ C1_LonePerson0AttemptAt(t) /\ C1_Person0RowAt(t)
        /\ C1_LonePerson0AttemptAt(t + 2) /\ ~C1_Person0RowAt(t + 2)
        /\ C1_LonePerson0AttemptAt(t + LOG_COOLDOWN) /\ C1_Person0RowAt(t + LOG_COOLDOWN)
        /\ last_log_time[0] = PassClock(now)

\* lines 184-185 with the widgets of the run
ConfigComplete ==
    enable_email /\ smtp_host /\ smtp_user /\ smtp_password /\ recipient

SendAttempted == Len(mail') = Len(mail) + 1 /\ SubSeq(mail', 1, Len(mail)) = mail

\* C2: a send sets last_email_time, to the time read before the send, only
\* if it returns success; after a failed send last_email_time is unchanged
\* and the loop goes on, and while the last send is a failed one every
\* processed frame with violations and a complete configuration sends again.
C2_FailedSendKeepsCooldown ==
    [][ProcessedStep =>
        /\ SendAttempted =>
              LET a == mail'[Len(mail')]
              IN  /\ a.at = PassClock(now')
                  /\ a.ok => last_email_time' = a.at
                  /\ ~a.ok => (last_email_time' = last_email_time /\ pc' = "loop")
        /\ ~SendAttempted => (mail' = mail /\ last_email_time' = last_email_time)
        /\ (/\ mail # <<>>
            /\ ~mail[Len(mail)].ok
            /\ violations' # <<>>
            /\ ConfigComplete)
           => SendAttempted]_vars

\* a failed send, and the next send less than the cooldown after it
C2_Witness ==
    /\ Len(mail) >= 2
    /\ ~mail[1].ok
    /\ mail[2].at - mail[1].at < EMAIL_COOLDOWN * TicksPerSecond
    /\ mail[2].ok
    /\ last_email_time = mail[2].at
    /\ clock > mail[2].at

\* C3 as stated: on a processed frame a send is attempted iff the time of the
\* pass minus last_email_time is at least 60 s, the violation list is not
\* empty, and host, user, password and recipient are all present.
C3_AsStated ==
    [][ProcessedStep =>
        (SendAttempted <=>
            /\ PassClock(now') - last_email_time >= EMAIL_COOLDOWN * TicksPerSecond
            /\ violations' # <<>>
            /\ smtp_host /\ smtp_user /\ smtp_password /\ recipient)]_vars

\* C3 (amended): on a processed frame a send is attempted iff the time of the
\* pass minus last_email_time is at least 60 s, the violation list is not
\* empty, alerts are enabled, and host, user, password and recipient are all
\* present; nothing else is sent.
C3_AlertGate ==
    [][ProcessedStep =>
        /\ SendAttempted <=>
              /\ PassClock(now') - last_email_time >= EMAIL_COOLDOWN * TicksPerSecond
              /\ violations' # <<>>
              /\ enable_email
              /\ smtp_host /\ smtp_user /\ smtp_password /\ recipient
        /\ ~SendAttempted => mail' = mail]_vars

\* after a successful send, a frame with violations within the cooldown: no send
C3_Witness ==
    /\ processed
    /\ ConfigComplete
    /\ violations # <<>>
    /\ Len(mail) = 1
    /\ mail[1].ok
    /\ PassClock(now) > mail[1].at
    /\ PassClock(now) - last_email_time < EMAIL_COOLDOWN * TicksPerSecond

\* the general rule of the rate limiter, for the step that reads a frame
C4_Rule ==
    /\ processed' <=> (now' - last_frame_time) * run_rate >= TicksPerSecond
    /\ processed' => last_frame_time' = now'
    /\ ~processed' =>
          UNCHANGED <<last_frame_time, detections, mapping, violations,
                      violation_boxes, last_log_time, last_email_time, log, mail>>

\* this frame and the one read before it are 0.05 s apart, at 8 fps
C4_TwentiethApart ==
    /\ frames_left < MaxFrames
    /\ run_rate = DEFAULT_RUN_RATE
    /\ (now' - now) * 20 = TicksPerSecond

\* C4 as stated: a frame is processed iff at least 1/max_fps s have passed
\* since the last processed frame, and then stamps last_frame_time; else it
\* leaves no trace; at 8 fps, of two frames 0.05 s apart exactly one is
\* processed.
C4_AsStated ==
    [][FrameStep =>
        /\ C4_Rule
        /\ C4_TwentiethApart => (processed # processed')]_vars

\* C4 (amended): the same rule; at 8 fps, of two frames 0.05 s apart at most
\* one is processed, and the second is discarded whenever the first is
\* processed.
C4_RateLimiter ==
    [][FrameStep =>
        /\ C4_Rule
        /\ C4_TwentiethApart => ~(processed /\ processed')]_vars

\* a frame discarded 0.05 s after a processed one, at 8 fps
C4_Witness ==
    /\ pc = "loop"
    /\ run_rate = DEFAULT_RUN_RATE
    /\ ~processed
    /\ (now - last_frame_time) * 20 = TicksPerSecond
    /\ log # <<>>

\* C10: a processed frame appends exactly one summary row, first, with the
\* people count and the violation count, an empty person id and an empty
\* missing list, whatever last_log_time holds; a discarded frame appends none.
C10_FrameSummary ==
    [][(ProcessedStep =>
            /\ Len(log') > Len(log)
            /\ SubSeq(log', 1, Len(log)) = log
            /\ Cardinality(SummaryRows(NewRows)) = 1
            /\ NewRows[1].person_id = ""
            /\ NewRows[1].missing = ""
            /\ NewRows[1].people_count = Cardinality(DOMAIN mapping')
            /\ NewRows[1].violations_count = Len(violations'))
       /\ (SkippedStep => log' = log)]_vars

\* a frame whose violation rows were all suppressed, and one with no people
C10_Witness ==
    /\ processed
    /\ Len(violations) = 2
    /\ log[Len(log)].person_id = ""
    /\ log[Len(log)].violations_count = 2
    /\ \E k \in 1 .. Len(log) : log[k].person_id = "" /\ log[k].people_count = 0

\* the rows among rows that name a person
PersonRows(rows) == {k \in 1 .. Len(rows) : rows[k].person_id # ""}

\* the cooldown of person pid is over at the pass of the frame being read
C11_CooldownOver(pid) ==
    \/ pid \notin DOMAIN last_log_time
    \/ PassClock(now') - last_log_time[pid] >= LOG_COOLDOWN * TicksPerSecond

\* C11: in one processed frame a violating person whose cooldown is over gets
\* exactly one violation row, and that row lists all the categories the
\* person misses (helmet, vest, or both, joined); no person id has more than
\* one violation row in the frame, and every violation row is that of a
\* person in violation.
C11_OneRowPerPerson ==
    [][ProcessedStep =>
        /\ \A pid \in 0 .. Len(detections') :
              Cardinality(RowsOf(NewRows, pid)) <= 1
        /\ \A r \in PersonRows(NewRows) :
              \E k \in 1 .. Len(violations') :
                  r \in RowsOf(NewRows, violations'[k].person_idx)
        /\ \A k \in 1 .. Len(violations') :
              LET v == violations'[k]
                  pid == v.person_idx
              IN  C11_CooldownOver(pid) =>
                      /\ Cardinality(RowsOf(NewRows, pid)) = 1
                      /\ \A r \in RowsOf(NewRows, pid) :
                            NewRows[r].missing =
                                IF v.missing_helmet /\ v.missing_vest THEN "helmet,vest"
                                ELSE IF v.missing_helmet THEN "helmet"
                                ELSE "vest"]_vars

\* a frame with two persons who each miss both categories, a row for each
C11_Witness ==
    /\ processed
    /\ Len(violations) = 2
    /\ violations[1].missing_helmet /\ violations[1].missing_vest
    /\ Len(log) >= 3
    /\ log[Len(log) - 2].person_id = ""
    /\ log[Len(log) - 1].person_id = "person_0"
    /\ log[Len(log) - 1].missing = "helmet,vest"
    /\ log[Len(log)].person_id = "person_1"
    /\ log[Len(log)].missing = "helmet,vest"

\* C13: whatever frames are processed and whatever the sends return, any two
\* successful sends of a session are at least the alert cooldown (60 s) apart,
\* by the time read at line 187 before each, and last_email_time never
\* decreases.
C13_AlertSpacing ==
    [][/\ last_email_time' >= last_email_time
       /\ \A i \in 1 .. Len(mail') : \A j \in (i + 1) .. Len(mail') :
             (mail'[i].ok /\ mail'[j].ok) =>
                 mail'[j].at - mail'[i].at >= EMAIL_COOLDOWN * TicksPerSecond]_vars

\* a failed send, a successful one soon after, and a successful one exactly
\* the cooldown after that
C13_Witness ==
    /\ Len(mail) = 3
    /\ ~mail[1].ok
    /\ mail[2].ok
    /\ mail[2].at - mail[1].at < EMAIL_COOLDOWN * TicksPerSecond
    /\ mail[3].ok
    /\ mail[3].at - mail[2].at = EMAIL_COOLDOWN * TicksPerSecond
    /\ last_email_time = mail[3].at

====
